---- MODULE Spec2Model ----
(***************************************************************************)
(* Model of scripts/quora-bot.js: the retry loop of the top-level async    *)
(* function, one attempt (attemptPost) with authentication, discovery,     *)
(* scoring, primary and fallback post, and the helpers they call.          *)
(*                                                                         *)
(* Texts are sequences of one-character strings.  The page driver          *)
(* (puppeteer) is the environment: what a page holds and whether a driver  *)
(* call throws are chosen with \E in the action that makes the call.       *)
(* Fault model: launch, page creation/setup and every page operation       *)
(* (goto, content, $, $$eval, $x, click, type, setCookie) may throw;       *)
(* sleep, browser.close, the run log (appendLog) and the write of          *)
(* quora-log.json do not.                                                  *)
(***************************************************************************)
EXTENDS Integers, Sequences, FiniteSets, TLC

(* ------------------------------ bounds -------------------------------- *)

\* largest attempt cap that RETRY_MAX is given in the model
MaxRetry == 3

(* ------------------------- numbers and texts -------------------------- *)

\* JavaScript's NaN; every other number of the model is >= 0
NaN == 0 - 1

Digits == <<"0", "1", "2", "3", "4", "5", "6", "7", "8", "9">>

IsDigit(c) == \E n \in 1..10 : Digits[n] = c

DigitVal(c) == (CHOOSE n \in 1..10 : Digits[n] = c) - 1

IsSpace(c) == c = " "

RECURSIVE Pow10(_)
Pow10(n) == IF n = 0 THEN 1 ELSE 10 * Pow10(n - 1)

\* the length of the longest prefix of t made of white space
RECURSIVE SpaceRun(_)
SpaceRun(t) ==
  IF t = <<>> \/ ~IsSpace(Head(t)) THEN 0 ELSE 1 + SpaceRun(Tail(t))

\* the length of the longest prefix of t made of digits
RECURSIVE DigitRun(_)
DigitRun(t) ==
  IF t = <<>> \/ ~IsDigit(Head(t)) THEN 0 ELSE 1 + DigitRun(Tail(t))

Drop(t, n) == SubSeq(t, n + 1, Len(t))

Take(t, n) == SubSeq(t, 1, n)

RECURSIVE DigitsValue(_)
DigitsValue(t) ==
  IF t = <<>> THEN 0
  ELSE 10 * DigitsValue(Take(t, Len(t) - 1)) + DigitVal(t[Len(t)])

\* String.prototype.trim
RECURSIVE TrimRight(_)
TrimRight(t) ==
  IF t # <<>> /\ IsSpace(t[Len(t)]) THEN TrimRight(Take(t, Len(t) - 1)) ELSE t

Trim(t) == TrimRight(Drop(t, SpaceRun(t)))

\* Math.max(1, x): NaN if x is NaN
MathMax1(x) == IF x = NaN THEN NaN ELSE IF x > 1 THEN x ELSE 1

\* the value no text has: an unset environment variable, a failed match
Unset == <<"<unset>">>

\* parseInt(s, 10) on the texts RETRY_MAX is drawn from: optional white
\* space, an optional sign, then the longest run of digits; NaN if none.
\* A negative value is returned as 0 - n.
ParseInt(s) ==
  LET t    == Drop(s, SpaceRun(s))
      neg  == t # <<>> /\ Head(t) = "-"
      u    == IF t # <<>> /\ Head(t) \in {"-", "+"} THEN Tail(t) ELSE t
      n    == DigitRun(u)
  IN  IF n = 0 THEN [nan |-> TRUE, neg |-> FALSE, abs |-> 0]
      ELSE [nan |-> FALSE, neg |-> neg, abs |-> DigitsValue(Take(u, n))]

\* const { RETRY_MAX = '1' } = process.env, then
\* Math.max(1, parseInt(RETRY_MAX||'1', 10))
Tries(retryMax) ==
  LET dflt == IF retryMax = Unset THEN <<"1">> ELSE retryMax
      s    == IF dflt = <<>> THEN <<"1">> ELSE dflt
      p    == ParseInt(s)
  IN  IF p.nan THEN NaN
      ELSE IF p.neg THEN 1
      ELSE MathMax1(p.abs)

RetryMaxInputs ==
  {Unset, <<"0">>, <<"x">>}
    \cup {<<Digits[n + 1]>> : n \in 2..MaxRetry}

(* ------------------------ parseNumberFromText ------------------------- *)

\* a character of the class [\d\.]
IsNumChar(c) == IsDigit(c) \/ c = "."

\* the length of the longest prefix of t made of [\d\.] characters
RECURSIVE NumRun(_)
NumRun(t) ==
  IF t = <<>> \/ ~IsNumChar(Head(t)) THEN 0 ELSE 1 + NumRun(Tail(t))

\* t.replace(/,/g, '')
RemoveCommas(t) == SelectSeq(t, LAMBDA c : c # ",")

\* the suffix of t that starts at its first [\d\.] character; <<>> if none
RECURSIVE FromFirstNum(_)
FromFirstNum(t) ==
  IF t = <<>> \/ IsNumChar(Head(t)) THEN t ELSE FromFirstNum(Tail(t))

\* parseFloat on a text of digits and dots: the longest prefix that is a
\* decimal literal, as the fraction num / 10^scale; NaN when it has no digit
ParseFloat(t) ==
  LET ip   == DigitRun(t)
      rest == Drop(t, ip)
      fp   == IF rest # <<>> /\ Head(rest) = "." THEN DigitRun(Tail(rest)) ELSE 0
  IN  IF ip + fp = 0 THEN [nan |-> TRUE, num |-> 0, scale |-> 0]
      ELSE [nan   |-> FALSE,
            num   |-> DigitsValue(Take(t, ip) \o Take(Drop(rest, 1), fp)),
            scale |-> fp]

\* the multiplier of match[2], matched case-insensitively
UnitOf(c) ==
  IF c \in {"k", "K"} THEN 1000 ELSE IF c \in {"m", "M"} THEN 1000000 ELSE 1

\* Math.round of the non-negative fraction num / den
MathRound(num, den) == (2 * num + den) \div (2 * den)

\* parseNumberFromText(t).  The arithmetic is exact (decimal fractions), where
\* the code computes in binary floating point.
parseNumberFromText(t) ==
  IF t = <<>> \/ t = Unset THEN 0
  ELSE
    LET cleaned == Trim(RemoveCommas(t))
        m       == FromFirstNum(cleaned)
        n       == NumRun(m)
        after   == Drop(m, n)
        tail    == Drop(after, SpaceRun(after))
        unit    == IF tail = <<>> THEN 1 ELSE UnitOf(Head(tail))
        f       == ParseFloat(Take(m, n))
    IN  IF m = <<>> THEN 0
        ELSE IF f.nan THEN NaN
        ELSE MathRound(f.num * unit, Pow10(f.scale))

(* ------------------------------ scoring ------------------------------- *)

\* String.prototype.toLowerCase on the letters the model's texts use
ToLowerChar(c) ==
  IF c = "A" THEN "a" ELSE IF c = "I" THEN "i" ELSE IF c = "O" THEN "o"
  ELSE IF c = "K" THEN "k" ELSE IF c = "M" THEN "m" ELSE c

ToLower(t) == [j \in 1..Len(t) |-> ToLowerChar(t[j])]

\* String.prototype.includes
Includes(t, k) ==
  \E j \in 0..(Len(t) - Len(k)) : SubSeq(t, j + 1, j + Len(k)) = k

\* String.prototype.endsWith
EndsWith(t, k) ==
  Len(t) >= Len(k) /\ SubSeq(t, Len(t) - Len(k) + 1, Len(t)) = k

\* floor(log10(n)) for n >= 1: Math.log10 exactly when n is a power of ten,
\* which 1 + followers is for every follower count the model's pages give
RECURSIVE Log10(_)
Log10(n) == IF n < 10 THEN 0 ELSE 1 + Log10(n \div 10)

\* the score of a candidate in hundredths; NaN when a count is NaN:
\*   kwScore*2 + Math.log10(1 + followers)*1.5
\*             + (answers<=2 ? 2 : Math.max(0, 1 - answers/20))
Score(text, keyword, followers, answers) ==
  LET kwScore     == IF Includes(ToLower(text), ToLower(keyword)) THEN 1 ELSE 0
      answerScore == IF answers <= 2 THEN 200
                     ELSE IF 100 - 5 * answers > 0 THEN 100 - 5 * answers ELSE 0
  IN  IF followers = NaN \/ answers = NaN THEN NaN
      ELSE kwScore * 200 + Log10(1 + followers) * 150 + answerScore

\* the comparator (a,b) => b.score - a.score as Array.prototype.sort reads it:
\* a positive result puts b before a; NaN counts as 0
ComesBefore(b, a) == a.score # NaN /\ b.score # NaN /\ b.score > a.score

\* the insertion of x into the sorted sequence s, behind every element it does
\* not come before (a stable insertion)
RECURSIVE InsertSorted(_, _)
InsertSorted(s, x) ==
  IF s # <<>> /\ ComesBefore(x, s[Len(s)])
  THEN Append(InsertSorted(Take(s, Len(s) - 1), x), s[Len(s)])
  ELSE Append(s, x)

\* scored.sort((a,b) => b.score - a.score): an insertion sort, which is what
\* V8 runs on arrays this short (at most maxCandidates elements)
RECURSIVE SortByScore(_)
SortByScore(s) ==
  IF s = <<>> THEN <<>>
  ELSE InsertSorted(SortByScore(Take(s, Len(s) - 1)), s[Len(s)])

(* ----------------------------- discovery ------------------------------ *)

\* the first n elements of s: Array.prototype.slice(0, n)
Slice(s, n) == IF Len(s) <= n THEN s ELSE Take(s, n)

\* the anchors that survive .filter(x => x && x.text && x.text.endsWith('?')),
\* each text trimmed first
QuestionAnchors(anchors) ==
  SelectSeq([j \in 1..Len(anchors) |->
               [text |-> Trim(anchors[j].text), href |-> anchors[j].href]],
            LAMBDA a : a.text # <<>> /\ EndsWith(a.text, <<"?">>))

\* unique by href, the first occurrence kept, in insertion order (a Map)
RECURSIVE UniqueByHref(_)
UniqueByHref(s) ==
  IF s = <<>> THEN <<>>
  ELSE LET init == UniqueByHref(Take(s, Len(s) - 1))
           last == s[Len(s)]
       IN  IF \E j \in 1..Len(init) : init[j].href = last.href
           THEN init ELSE Append(init, last)

maxCandidates == 10

AnchorSlice == 40

\* a mutant of Candidates: the final slice(0, maxCandidates) is left out
CandidatesUncapped(anchors) ==
  UniqueByHref(Slice(QuestionAnchors(anchors), AnchorSlice))

\* collectCandidatesFromSearch, given the anchors of the search page
Candidates(anchors) ==
  Slice(UniqueByHref(Slice(QuestionAnchors(anchors), AnchorSlice)), maxCandidates)

\* new URL(c.href, 'https://www.quora.com').toString()
FullUrl(href) == <<"https://www.quora.com", href>>

(* --------------------------- the environment -------------------------- *)

\* latest-blog.json: unreadable or invalid (loadBlogMeta returns null), or a
\* payload with its keyword
NoMeta == [loaded |-> FALSE, KW |-> <<>>]

MetaInputs == {NoMeta, [loaded |-> TRUE, KW |-> <<"a", "i">>]}

\* quora-log.json as a run finds it.  The program is the file's only writer
\* and writes it in one piece as a JSON array of entries: the file is
\* absent, holds an array of entries, or (a write cut short) holds no valid
\* JSON.
NoLogFile == [kind |-> "absent", entries |-> <<>>]

OldEntry == [target |-> <<"old">>, mode |-> "question"]

LogFileInputs ==
  {NoLogFile,
   [kind |-> "array", entries |-> <<OldEntry>>],
   [kind |-> "invalid", entries |-> <<>>]}

\* process.env, read once at module load, with the two files: a first run,
\* with no quora-log.json yet
EnvInputs ==
  {e \in [token : BOOLEAN, email : BOOLEAN, password : BOOLEAN, engage : BOOLEAN,
          retryMax : RetryMaxInputs, meta : MetaInputs, log : {NoLogFile}] :
     e.password => e.email}

\* a later run, with a token, credentials, engagement and a cap of 2, that
\* finds quora-log.json in any of its conditions
LogEnvInputs ==
  [token : {TRUE}, email : {TRUE}, password : {TRUE}, engage : {TRUE},
   retryMax : {<<"2">>}, meta : MetaInputs, log : LogFileInputs]

\* a page's html, as the set of challenge phrases it holds
HtmlInputs == {{}, {"captcha"}, {"are you human"}}

\* detectChallenge: /captcha|are you human|verify|challenge|two-step/i
detectChallenge(html) ==
  html \cap {"captcha", "are you human", "verify", "challenge", "two-step"} # {}

\* the test of scoreCandidates: /captcha|verify|challenge/i
ScoringChallenge(html) == html \cap {"captcha", "verify", "challenge"} # {}

\* the anchors a search page may list
AnchorInputs ==
  {[text |-> <<"A", "i", "?">>, href |-> "/q1"],
   [text |-> <<"o", "k", "?", " ">>, href |-> "/q2"],
   [text |-> <<"o", "k", "?">>, href |-> "/q3"],
   [text |-> <<"O", "k", "?">>, href |-> "/q1"],
   [text |-> <<"a", "i">>, href |-> "/q4"]}

\* most anchors on a search page of the model
MaxAnchors == 3

RECURSIVE SeqsUpTo(_, _)
SeqsUpTo(S, n) ==
  IF n = 0 THEN {<<>>}
  ELSE LET shorter == SeqsUpTo(S, n - 1)
       IN  shorter \cup {Append(q, x) : q \in shorter, x \in S}

SearchInputs == SeqsUpTo(AnchorInputs, MaxAnchors)

\* what a driver call that reads a text gives: the call throws, the pattern
\* or element is not there, or the text
Throws == <<"<throws>">>

\* a question page as the scoring pass reads it: whether the first
\* extraction ($$eval) succeeds, the texts its followers and answers patterns
\* capture (Unset: no match), and what the fallback elements give
CountInputs ==
  {[main |-> FALSE, f |-> Unset, a |-> Unset, ffall |-> Throws, afall |-> Throws],
   [main |-> TRUE, f |-> <<"9">>, a |-> <<"3", "0">>, ffall |-> Throws, afall |-> Throws],
   [main |-> TRUE, f |-> <<".">>, a |-> Unset, ffall |-> Throws, afall |-> <<"1", ",", "2">>]}

(* ------------------------------- state -------------------------------- *)

VARIABLES
  env,         \* process.env and the two files as the run finds them, fixed
  pc,          \* where the run is
  i,           \* the loop index of the top-level loop
  exitCode,    \* the process exit code, Running while the process runs
  exitVia,     \* how the process ended
  attempts,    \* calls of attemptPost so far
  delays,      \* the backoff delays slept so far, in order
  backoff,     \* the delay the loop has computed and is about to sleep
  res,         \* what the last attemptPost returned
  quoraLog,    \* quora-log.json
  browsers,    \* browsers launched and not closed
  sessionOk,   \* attemptPost's sessionOk
  authLog,     \* the authentication paths tried in this attempt, in order
  authPage,    \* the page the last authentication path tried has read
  candidates,  \* attemptPost's candidates
  visitLog,    \* scoreCandidates: how the visit of each candidate so far ended
  pageLog,     \* scoreCandidates: the page each visit so far has read its counts from
  scored,      \* scoreCandidates' scored, then attemptPost's scored
  chosen,      \* attemptPost's chosen
  primary,     \* how postAnswerOnQuestion ended in this attempt
  primaryLog,  \* postAnswerOnQuestion: the page's html and the driver calls made
  space,       \* how each call of tryPostToSpace in this attempt ended
  arg,         \* the argument of a function called on its own
  ret          \* what that call returned

\* A function of the program called on its own, outside a run: a run leaves
\* these alone.
callVars == <<arg, ret>>

runVars ==
  <<env, i, exitCode, exitVia, attempts, delays, backoff, quoraLog, callVars>>

attemptVars ==
  <<sessionOk, authLog, authPage, candidates, visitLog, pageLog, scored, chosen,
    primary, primaryLog, space>>

vars == <<runVars, pc, res, browsers, attemptVars>>

Running == 0 - 1

NoRes == [ok |-> FALSE, reason |-> "none", mode |-> "none", target |-> <<>>]

NoAuthPage == [path |-> "none", html |-> {}, marker |-> FALSE]

\* no count was read in a visit: the navigation threw or a challenge was found
NoPage == [main |-> FALSE, f |-> Unset, a |-> Unset, ffall |-> Unset, afall |-> Unset]

NoPrimaryLog == [html |-> {}, calls |-> <<>>]

NoCandidate == [href |-> <<>>, text |-> <<>>, followers |-> 0, answers |-> 0, score |-> 0]

\* const tries = Math.max(1, parseInt(RETRY_MAX||'1',10))
tries == Tries(env.retryMax)

\* meta.KW || meta.TITLE || ''
keyword == env.meta.KW

\* the state when the top-level function starts, in one of the environments
StartsIn(environments) ==
  /\ env \in environments
  /\ pc = "start"
  /\ i = 0
  /\ exitCode = Running
  /\ exitVia = "running"
  /\ attempts = 0
  /\ delays = <<>>
  /\ backoff = 0
  /\ res = NoRes
  /\ quoraLog = env.log
  /\ browsers = 0
  /\ sessionOk = FALSE
  /\ authLog = <<>>
  /\ authPage = NoAuthPage
  /\ candidates = <<>>
  /\ visitLog = <<>>
  /\ pageLog = <<>>
  /\ scored = <<>>
  /\ chosen = NoCandidate
  /\ primary = "none"
  /\ primaryLog = NoPrimaryLog
  /\ space = <<>>
  /\ arg = <<>>
  /\ ret = <<>>

Init == StartsIn(EnvInputs)

(* ------------------------ how the process ends ------------------------ *)

\* process.exit(code), or the event loop running empty
Exit(code, via) ==
  /\ pc' = "exited"
  /\ exitCode' = code
  /\ exitVia' = via

\* A rejection of the top-level async function that nothing handles: Node
\* 15 and later end the process with code 1, earlier versions print a warning
\* and the process ends with code 0 when the event loop is empty.
UnhandledExitCodes == {0, 1}

\* the loop condition i <= tries; false when tries is NaN
LoopCondition(n) == tries # NaN /\ n <= tries

\* the test i < tries of the failure branch
MoreTries(n) == tries # NaN /\ n < tries

\* a mutant of BackoffDelay: exponential growth, 2000 * 2^(i-1)
BackoffDoubling(n) == 2000 * 2 ^ (n - 1)

\* const backoff = 2000 * i * i
BackoffDelay(n) == 2000 * n * n

(* --------------------------- one attempt ------------------------------ *)

\* return { ok:false, reason } after await browser.close()
Fail(reason) ==
  /\ browsers' = browsers - 1
  /\ res' = [ok |-> FALSE, reason |-> reason, mode |-> "none", target |-> <<>>]
  /\ pc' = "returned"

\* return { ok:true, mode, target } after await browser.close()
Succeed(mode, target) ==
  /\ browsers' = browsers - 1
  /\ res' = [ok |-> TRUE, reason |-> "none", mode |-> mode, target |-> target]
  /\ pc' = "returned"

\* the catch block of attemptPost
Caught == Fail("exception")

\* puppeteer.launch, the first statement of attemptPost, outside its try
Launch ==
  /\ pc = "launch"
  /\ attempts' = attempts + 1
  /\ \E launched \in BOOLEAN :
       IF launched
       THEN /\ browsers' = browsers + 1
            /\ pc' = "setup"
            /\ UNCHANGED <<exitCode, exitVia>>
       ELSE /\ \E code \in UnhandledExitCodes : Exit(code, "unhandled_rejection")
            /\ UNCHANGED browsers
  /\ UNCHANGED <<callVars, env, i, delays, backoff, quoraLog, res, attemptVars>>

\* browser.newPage, page.setViewport, page.setUserAgent: outside the try
PageSetup ==
  /\ pc = "setup"
  /\ \E done \in BOOLEAN :
       IF done
       THEN pc' = "cookie" /\ UNCHANGED <<exitCode, exitVia>>
       ELSE \E code \in UnhandledExitCodes : Exit(code, "unhandled_rejection")
  /\ UNCHANGED <<callVars, env, i, attempts, delays, backoff, quoraLog, res, browsers, attemptVars>>

\* a mutant of NeedsCredLogin: the credential login runs in every attempt
AlwaysCredLogin(ok) == TRUE

\* if(!sessionOk): the credential login runs when the token path has not
\* been kept
NeedsCredLogin(ok) == ~ok

\* let sessionOk = await setSessionCookie(page)
SetSessionCookie ==
  /\ pc = "cookie"
  /\ IF ~env.token
     THEN /\ sessionOk' = FALSE
          /\ UNCHANGED authLog
     ELSE /\ authLog' = Append(authLog, "token")
          /\ \E cookieSet \in BOOLEAN : sessionOk' = cookieSet
  /\ pc' = IF sessionOk' THEN "tokenCheck"
           ELSE IF NeedsCredLogin(sessionOk') THEN "login" ELSE "discover"
  /\ UNCHANGED <<runVars, res, browsers, authPage, candidates, visitLog, pageLog, scored,
                 chosen, primary, primaryLog, space>>

\* a mutant of TokenAccepted: the login input left on the page is not looked at
TokenAcceptedIgnoringMarker(html, marker) == ~detectChallenge(html)

\* the token path is kept when the root page shows no challenge and no
\* login input
TokenAccepted(html, marker) == ~detectChallenge(html) /\ ~marker

\* if(sessionOk){ goto root; detectChallenge; page.$(login input) }
TokenCheck ==
  /\ pc = "tokenCheck"
  /\ \E thrown \in BOOLEAN, html \in HtmlInputs, marker \in BOOLEAN :
       IF thrown
       THEN /\ Caught
            /\ UNCHANGED <<sessionOk, authPage>>
       ELSE /\ sessionOk' = TokenAccepted(html, marker)
            /\ authPage' = [path |-> "token", html |-> html, marker |-> marker]
            /\ pc' = IF NeedsCredLogin(sessionOk') THEN "login" ELSE "discover"
            /\ UNCHANGED <<res, browsers>>
  /\ UNCHANGED <<runVars, authLog, candidates, visitLog, pageLog, scored, chosen,
                 primary, primaryLog, space>>

\* loginWithCreds returns true when, after the submit, the page shows no
\* challenge and no login input
CredAccepted(html, marker) == ~detectChallenge(html) /\ ~marker

\* if(!sessionOk){ const credOk = await loginWithCreds(page); ... }
LoginWithCreds ==
  /\ pc = "login"
  /\ IF ~env.email \/ ~env.password
     THEN /\ Fail("auth_failed")
          /\ UNCHANGED <<authLog, authPage>>
     ELSE /\ authLog' = Append(authLog, "creds")
          /\ \E thrown \in BOOLEAN, html \in HtmlInputs, marker \in BOOLEAN :
               IF thrown
               THEN /\ Fail("auth_failed")
                    /\ UNCHANGED authPage
               ELSE /\ authPage' = [path |-> "creds", html |-> html, marker |-> marker]
                    /\ IF CredAccepted(html, marker)
                       THEN pc' = "discover" /\ UNCHANGED <<res, browsers>>
                       ELSE Fail("auth_failed")
  /\ UNCHANGED <<runVars, sessionOk, candidates, visitLog, pageLog, scored, chosen,
                 primary, primaryLog, space>>

\* a mutant of CollectCandidates: the test for no candidates is left out
CollectCandidatesUntested ==
  /\ pc = "discover"
  /\ \E thrown \in BOOLEAN, anchors \in SearchInputs :
       IF thrown
       THEN Caught /\ UNCHANGED candidates
       ELSE /\ candidates' = Candidates(anchors)
            /\ pc' = "score"
            /\ UNCHANGED <<res, browsers>>
  /\ UNCHANGED <<runVars, sessionOk, authLog, authPage, visitLog, pageLog, scored, chosen,
                 primary, primaryLog, space>>

\* const candidates = await collectCandidatesFromSearch(...), and the test
\* for no candidates
CollectCandidates ==
  /\ pc = "discover"
  /\ \E thrown \in BOOLEAN, anchors \in SearchInputs :
       IF thrown
       THEN Caught /\ UNCHANGED candidates
       ELSE /\ candidates' = Candidates(anchors)
            /\ IF candidates' = <<>>
               THEN Fail("no_candidates")
               ELSE pc' = "score" /\ UNCHANGED <<res, browsers>>
  /\ UNCHANGED <<runVars, sessionOk, authLog, authPage, visitLog, pageLog, scored, chosen,
                 primary, primaryLog, space>>

(* ------------------------------ scoring ------------------------------- *)

\* the follower count of a page: the first extraction, then the fallback
\* element when the count is still falsy (0 or NaN)
FollowersOf(page) ==
  LET first == IF page.main /\ page.f # Unset THEN parseNumberFromText(page.f) ELSE 0
  IN  IF first # 0 /\ first # NaN THEN first
      ELSE IF page.ffall = Throws THEN first
      ELSE parseNumberFromText(page.ffall)

\* the answer count of a page, likewise
AnswersOf(page) ==
  LET first == IF page.main /\ page.a # Unset THEN parseNumberFromText(page.a) ELSE 0
  IN  IF first # 0 /\ first # NaN THEN first
      ELSE IF page.afall = Throws THEN first
      ELSE parseNumberFromText(page.afall)

\* the element pushed on scored for candidate c
ScoredCandidate(c, page) ==
  [href      |-> FullUrl(c.href),
   text      |-> c.text,
   followers |-> FollowersOf(page),
   answers   |-> AnswersOf(page),
   score     |-> Score(c.text, keyword, FollowersOf(page), AnswersOf(page))]

\* a mutant of AfterChallenge: the loop goes on to the next candidate
KeepsScoring == "score"

\* where scoreCandidates goes on a detected challenge: return scored
AfterChallenge == "choose"

\* a mutant of ScoreVisit: an error on a candidate's page ends the pass
ScoreVisitAbortedByError ==
  /\ pc = "score"
  /\ Len(visitLog) < Len(candidates)
  /\ LET c == candidates[Len(visitLog) + 1]
     IN  \E thrown \in BOOLEAN, html \in HtmlInputs, page \in CountInputs :
           IF thrown
           THEN /\ visitLog' = Append(visitLog, "error")
                /\ pageLog' = Append(pageLog, NoPage)
                /\ pc' = "choose"
                /\ UNCHANGED scored
           ELSE IF ScoringChallenge(html)
           THEN /\ visitLog' = Append(visitLog, "challenge")
                /\ pageLog' = Append(pageLog, NoPage)
                /\ pc' = AfterChallenge
                /\ UNCHANGED scored
           ELSE /\ visitLog' = Append(visitLog, "scored")
                /\ pageLog' = Append(pageLog, page)
                /\ scored' = Append(scored, ScoredCandidate(c, page))
                /\ UNCHANGED pc
  /\ UNCHANGED <<runVars, res, browsers, sessionOk, authLog, authPage, candidates,
                 chosen, primary, primaryLog, space>>

\* one iteration of the loop of scoreCandidates
ScoreVisit ==
  /\ pc = "score"
  /\ Len(visitLog) < Len(candidates)
  /\ LET c == candidates[Len(visitLog) + 1]
     IN  \E thrown \in BOOLEAN, html \in HtmlInputs, page \in CountInputs :
           IF thrown
           THEN /\ visitLog' = Append(visitLog, "error")
                /\ pageLog' = Append(pageLog, NoPage)
                /\ UNCHANGED <<scored, pc>>
           ELSE IF ScoringChallenge(html)
           THEN /\ visitLog' = Append(visitLog, "challenge")
                /\ pageLog' = Append(pageLog, NoPage)
                /\ pc' = AfterChallenge
                /\ UNCHANGED scored
           ELSE /\ visitLog' = Append(visitLog, "scored")
                /\ pageLog' = Append(pageLog, page)
                /\ scored' = Append(scored, ScoredCandidate(c, page))
                /\ UNCHANGED pc
  /\ UNCHANGED <<runVars, res, browsers, sessionOk, authLog, authPage, candidates,
                 chosen, primary, primaryLog, space>>

\* the end of the loop: scored.sort(...); return scored
ScoreSort ==
  /\ pc = "score"
  /\ Len(visitLog) = Len(candidates)
  /\ scored' = SortByScore(scored)
  /\ pc' = "choose"
  /\ UNCHANGED <<runVars, res, browsers, sessionOk, authLog, authPage, candidates,
                 visitLog, pageLog, chosen, primary, primaryLog, space>>

\* the test for an empty scoring result, and const chosen = scored[0].
\* Nothing reads candidates or scored after this: the model forgets them
\* here, with the log of the scoring pass.
ChooseTarget ==
  /\ pc = "choose"
  /\ IF scored = <<>>
     THEN Fail("scoring_empty") /\ UNCHANGED chosen
     ELSE /\ chosen' = scored[1]
          /\ pc' = "post"
          /\ UNCHANGED <<res, browsers>>
  /\ candidates' = <<>>
  /\ visitLog' = <<>>
  /\ pageLog' = <<>>
  /\ scored' = <<>>
  /\ UNCHANGED <<runVars, sessionOk, authLog, authPage, primary, primaryLog, space>>

(* ------------------------------ posting ------------------------------- *)

\* the question page as postAnswerOnQuestion finds it: its html, whether an
\* editor is there at once, what the Answer/Write button does (there is
\* none, its click opens an editor, or no editor shows after the click), and
\* whether a Post/Publish button is found
PrimaryPages ==
  [html : HtmlInputs, editor : BOOLEAN, reveal : {"no_button", "opens", "stays_closed"},
   button : BOOLEAN]

\* a mutant of PrimaryChallenge: the page is not tested for a challenge
PrimaryChallengeUntested(html) == FALSE

\* if(await detectChallenge(page)){ ...; return false; }
PrimaryChallenge(html) == detectChallenge(html)

\* an editor has been found, at once or after the click on Answer/Write
EditorFound(page) == page.editor \/ page.reveal = "opens"

\* the driver calls postAnswerOnQuestion makes on a page, in order: the
\* navigation and the read of the html, and when no challenge is found the
\* editor lookup, with no editor the lookup of the Answer/Write button, its
\* click and the second editor lookup, with an editor the typing of the
\* answer, the lookup of the post button and its click
PrimaryCalls(page) ==
  <<"goto", "content">>
    \o (IF PrimaryChallenge(page.html) THEN <<>>
        ELSE <<"lookup_editor">>
               \o (IF page.editor THEN <<>>
                   ELSE <<"lookup_answer">>
                          \o (IF page.reveal = "no_button" THEN <<>> ELSE <<"click_answer">>)
                          \o <<"lookup_editor">>)
               \o (IF ~EditorFound(page) THEN <<>>
                   ELSE <<"type", "lookup_post">>
                          \o (IF page.button THEN <<"click_post">> ELSE <<>>)))

\* how postAnswerOnQuestion ends on a page that loads: false for a challenge,
\* for no editor and for no post button, true after the click on the post
\* button
PrimaryOutcome(page) ==
  IF PrimaryChallenge(page.html) THEN "challenge"
  ELSE IF ~EditorFound(page) THEN "no_editor"
  ELSE IF ~page.button THEN "no_button"
  ELSE "posted"

\* how a call of tryPostToSpace can end
SpaceOutcomes == {"threw", "no_spaces", "no_editor", "no_button", "posted"}

\* a mutant of TriesFallback: a failed primary post ends without the fallback
NeverTriesFallback(posted) == FALSE

\* a mutant of TriesFallback: the fallback runs after every primary post
AlwaysTriesFallback(posted) == TRUE

\* if(!posted): the fallback runs when postAnswerOnQuestion returned false
TriesFallback(posted) == ~posted

\* the reason returned when the space post failed too
FallbackFailureReason == "post_failed"

\* const posted = await postAnswerOnQuestion(page, chosen.href, answer): its
\* navigation or its read of the html throws, or it returns
PostAnswerOnQuestion ==
  /\ pc = "post"
  /\ \E thrown \in {"none", "goto", "content"}, page \in PrimaryPages :
       IF thrown # "none"
       THEN /\ primary' = "threw"
            /\ primaryLog' =
                 [html  |-> {},
                  calls |-> IF thrown = "goto" THEN <<"goto">> ELSE <<"goto", "content">>]
            /\ Caught
       ELSE /\ primary' = PrimaryOutcome(page)
            /\ primaryLog' = [html |-> page.html, calls |-> PrimaryCalls(page)]
            /\ IF TriesFallback(primary' = "posted")
               THEN pc' = "space" /\ UNCHANGED <<res, browsers>>
               ELSE IF env.engage
               THEN pc' = "engage" /\ UNCHANGED <<res, browsers>>
               ELSE Succeed("question", chosen.href)
  /\ UNCHANGED <<runVars, sessionOk, authLog, authPage, candidates, visitLog, pageLog,
                 scored, chosen, space>>

\* const spPosted = await tryPostToSpace(...) and the two returns after it
TryPostToSpace ==
  /\ pc = "space"
  /\ \E outcome \in SpaceOutcomes :
       /\ space' = Append(space, outcome)
       /\ IF outcome = "posted"
          THEN Succeed("space", <<"space">>)
          ELSE Fail(FallbackFailureReason)
  /\ UNCHANGED <<runVars, sessionOk, authLog, authPage, candidates, visitLog, pageLog, scored,
                 chosen, primary, primaryLog>>

\* engageOnQuestion, which swallows its own errors, and the return after it
Engage ==
  /\ pc = "engage"
  /\ Succeed("question", chosen.href)
  /\ UNCHANGED <<runVars, attemptVars>>

(* ---------------------------- the run loop ---------------------------- *)

\* The locals of attemptPost are gone when it has returned; the model keeps
\* them, with the history of the attempt, until the loop has read res.
ForgetAttempt ==
  /\ sessionOk' = FALSE
  /\ authLog' = <<>>
  /\ authPage' = NoAuthPage
  /\ candidates' = <<>>
  /\ visitLog' = <<>>
  /\ pageLog' = <<>>
  /\ scored' = <<>>
  /\ chosen' = NoCandidate
  /\ primary' = "none"
  /\ primaryLog' = NoPrimaryLog
  /\ space' = <<>>

\* loadBlogMeta, the exit for a missing payload, and the loop's first test
Start ==
  /\ pc = "start"
  /\ IF ~env.meta.loaded
     THEN Exit(1, "missing_payload") /\ UNCHANGED i
     ELSE /\ i' = 1
          /\ IF LoopCondition(1)
             THEN pc' = "launch" /\ UNCHANGED <<exitCode, exitVia>>
             ELSE Exit(0, "fell_through")
  /\ UNCHANGED <<callVars, env, attempts, delays, backoff, quoraLog, res, browsers, attemptVars>>

\* let arr = []; try { arr = existsSync ? JSON.parse(readFile) : [] }
\* catch(e){ arr = [] }
ParsedLog(file) == IF file.kind = "array" THEN file.entries ELSE <<>>

\* a mutant of WrittenLog: the file is written with the new entry alone
WrittenLogAnew(file, entry) == [kind |-> "array", entries |-> <<entry>>]

\* arr.push(entry); writeFile(JSON.stringify(arr))
WrittenLog(file, entry) == [kind |-> "array", entries |-> Append(ParsedLog(file), entry)]

\* const entry = { ..., target: res.target || '', mode: res.mode || 'question' }
LogEntry(r) == [target |-> r.target, mode |-> r.mode]

\* a mutant of RunSucceeded: the entry is logged and process.exit(0) is left
\* out, so the loop goes on to its next iteration
RunSucceededWithoutExit ==
  /\ pc = "returned"
  /\ res.ok
  /\ quoraLog' = WrittenLog(quoraLog, LogEntry(res))
  /\ i' = i + 1
  /\ res' = NoRes
  /\ IF LoopCondition(i + 1)
     THEN pc' = "launch" /\ UNCHANGED <<exitCode, exitVia>>
     ELSE Exit(0, "fell_through")
  /\ ForgetAttempt
  /\ UNCHANGED <<callVars, env, attempts, delays, backoff, browsers>>

\* if(res.ok){ appendQuoraLog(entry); process.exit(0) }
RunSucceeded ==
  /\ pc = "returned"
  /\ res.ok
  /\ quoraLog' = WrittenLog(quoraLog, LogEntry(res))
  /\ Exit(0, "success")
  /\ ForgetAttempt
  /\ UNCHANGED <<callVars, env, i, attempts, delays, backoff, res, browsers>>

\* the failure branch with i < tries: compute and announce the backoff
ScheduleBackoff ==
  /\ pc = "returned"
  /\ ~res.ok
  /\ MoreTries(i)
  /\ backoff' = BackoffDelay(i)
  /\ pc' = "backoff"
  /\ ForgetAttempt
  /\ UNCHANGED <<callVars, env, i, exitCode, exitVia, attempts, delays, quoraLog, res, browsers>>

\* await sleep(backoff); continue, and the loop's next test; res and backoff
\* are constants of the loop body, gone with the iteration
Sleep ==
  /\ pc = "backoff"
  /\ delays' = Append(delays, backoff)
  /\ backoff' = 0
  /\ i' = i + 1
  /\ res' = NoRes
  /\ IF LoopCondition(i + 1)
     THEN pc' = "launch" /\ UNCHANGED <<exitCode, exitVia>>
     ELSE Exit(0, "fell_through")
  /\ UNCHANGED <<callVars, env, attempts, quoraLog, browsers, attemptVars>>

\* the failure branch of the last attempt: process.exit(2)
AllFailed ==
  /\ pc = "returned"
  /\ ~res.ok
  /\ ~MoreTries(i)
  /\ Exit(2, "all_failed")
  /\ ForgetAttempt
  /\ UNCHANGED <<callVars, env, i, attempts, delays, backoff, quoraLog, res, browsers>>

Next ==
  \/ Start
  \/ Launch
  \/ PageSetup
  \/ SetSessionCookie
  \/ TokenCheck
  \/ LoginWithCreds
  \/ CollectCandidates
  \/ ScoreVisit
  \/ ScoreSort
  \/ ChooseTarget
  \/ PostAnswerOnQuestion
  \/ TryPostToSpace
  \/ Engage
  \/ RunSucceeded
  \/ ScheduleBackoff
  \/ Sleep
  \/ AllFailed

Spec == Init /\ [][Next]_vars

\* a run that finds quora-log.json in any of its conditions
LogInit == StartsIn(LogEnvInputs)

LogSpec == LogInit /\ [][Next]_vars

(* ------------------- functions called on their own -------------------- *)

\* no run is in progress: a function of the program is called on its own
NoRun ==
  /\ env = [token |-> FALSE, email |-> FALSE, password |-> FALSE, engage |-> FALSE,
            retryMax |-> Unset, meta |-> NoMeta, log |-> NoLogFile]
  /\ i = 0
  /\ exitCode = Running
  /\ exitVia = "running"
  /\ attempts = 0
  /\ delays = <<>>
  /\ backoff = 0
  /\ res = NoRes
  /\ quoraLog = env.log
  /\ browsers = 0
  /\ sessionOk = FALSE
  /\ authLog = <<>>
  /\ authPage = NoAuthPage
  /\ candidates = <<>>
  /\ visitLog = <<>>
  /\ pageLog = <<>>
  /\ scored = <<>>
  /\ chosen = NoCandidate
  /\ primary = "none"
  /\ primaryLog = NoPrimaryLog
  /\ space = <<>>

\* what a call of a function on its own leaves alone
programVars ==
  <<env, i, exitCode, exitVia, attempts, delays, backoff, res, quoraLog, browsers,
    attemptVars>>

\* longest text given to parseNumberFromText, the examples apart
MaxText == 3

\* the characters of those texts: digits, the dot, the comma, the units in
\* either case, white space and a letter that is no unit
ParserChars == {"1", "5", ".", ",", "k", "M", " ", "a"}

\* "37 answers" and "1.2k followers" of the comment above the function, and
\* texts with separators, units and no number
ExampleTexts ==
  {<<"3", "7", " ", "a", "n", "s", "w", "e", "r", "s">>,
   <<"1", ".", "2", "k", " ", "f", "o", "l", "l", "o", "w", "e", "r", "s">>,
   <<"1", ",", "2", "3", "4">>,
   <<"1", ".", "2", "k">>,
   <<"3", "m">>,
   <<"a", "b", "c">>}

\* the arguments of parseNumberFromText: texts, and undefined (a capture
\* group that did not take part in the match)
ParserInputs == SeqsUpTo(ParserChars, MaxText) \cup ExampleTexts \cup {Unset}

ParserInit ==
  /\ NoRun
  /\ pc = "call"
  /\ arg \in ParserInputs
  /\ ret = 0

\* const n = parseNumberFromText(t)
ParseNumber ==
  /\ pc = "call"
  /\ ret' = parseNumberFromText(arg)
  /\ pc' = "returned"
  /\ UNCHANGED <<programVars, arg>>

ParserNext == ParseNumber

ParserSpec == ParserInit /\ [][ParserNext]_vars

\* most anchors on a search page given to collectCandidatesFromSearch on
\* its own: more than the 40 the function keeps
MaxPage == 45

\* the hrefs of those pages: more than maxCandidates of them
HrefNames ==
  <<"/q1", "/q2", "/q3", "/q4", "/q5", "/q6", "/q7", "/q8", "/q9", "/q10",
    "/q11", "/q12">>

\* how the texts of a page's anchors go: every one a question, every second
\* one no question, or by threes no question, a question with white space
\* around it, a question
PagePatterns == {"questions", "alternate", "spaced"}

AnchorText(j, pattern) ==
  IF pattern = "alternate" /\ j % 2 = 0 THEN <<"a", "i">>
  ELSE IF pattern = "spaced" /\ j % 3 = 1 THEN <<"?", "a">>
  ELSE IF pattern = "spaced" /\ j % 3 = 2 THEN <<" ", "o", "k", "?", " ">>
  ELSE <<"A", "i", "?">>

\* a search page of n anchors whose hrefs repeat with period m
SearchPage(n, m, pattern) ==
  [j \in 1..n |->
     [text |-> AnchorText(j, pattern), href |-> HrefNames[((j - 1) % m) + 1]]]

PageInputs ==
  {SearchPage(n, m, pattern) :
     n \in 0..MaxPage, m \in 1..Len(HrefNames), pattern \in PagePatterns}

DiscoveryInit ==
  /\ NoRun
  /\ pc = "call"
  /\ arg \in PageInputs
  /\ ret = <<>>

\* const candidates = collectCandidatesFromSearch(page, keyword), on a page
\* that loads
CollectFromSearch ==
  /\ pc = "call"
  /\ ret' = Candidates(arg)
  /\ pc' = "returned"
  /\ UNCHANGED <<programVars, arg>>

DiscoveryNext == CollectFromSearch

DiscoverySpec == DiscoveryInit /\ [][DiscoveryNext]_vars

(* ------------------------------ claims -------------------------------- *)

Range(s) == {s[j] : j \in 1..Len(s)}

\* the attempt is past authentication
PastAuth == pc \in {"discover", "score", "choose", "post", "space", "engage"}

\* postAnswerOnQuestion returned false
PrimaryFailed == primary \in {"challenge", "no_editor", "no_button"}

\* C1: with an attempt cap N >= 1, attemptPost runs at most N times; the first
\* attempt that returns ok (attempt k, after k - 1 failed attempts and their
\* k - 1 delays) ends the run as Success with exactly k attempts run, and no
\* attempt and no backoff follows it.
C1_FirstSuccessEndsRun ==
  /\ [](tries # NaN =>
          /\ attempts <= tries
          /\ (pc = "returned" => attempts = i /\ Len(delays) = i - 1)
          /\ (exitVia = "success" =>
                /\ res.ok
                /\ exitCode = 0
                /\ attempts = i
                /\ Len(delays) = i - 1
                /\ backoff = 0))
  /\ [][(tries # NaN /\ pc = "returned" /\ res.ok) =>
          /\ pc' = "exited"
          /\ exitVia' = "success"
          /\ attempts' = attempts
          /\ delays' = delays
          /\ backoff' = backoff]_vars
  /\ [][~(pc = "exited" /\ exitVia = "success")]_vars

\* the run of the spec's example: cap 3, two failed attempts, the third succeeds
C1_Witness ==
  tries = 3 /\ exitVia = "success" /\ attempts = 3 /\ Len(delays) = 2

\* C2: the k-th delay slept is 2000 * k^2 ms; a delay is pending only after a
\* failed attempt i that another attempt follows, and is 2000 * i^2; attempt
\* i has exactly i - 1 delays before it, so none follows a success or the
\* last permitted attempt.
C2_QuadraticBackoff ==
  tries # NaN =>
    /\ \A k \in 1..Len(delays) : delays[k] = 2000 * k * k
    /\ (pc = "backoff" =>
          /\ backoff = 2000 * i * i
          /\ ~res.ok
          /\ i < tries
          /\ Len(delays) = i - 1)
    /\ (pc # "backoff" => backoff = 0)
    /\ (i >= 1 =>
          /\ Len(delays) = i - 1
          /\ attempts = (IF pc = "launch" THEN i - 1 ELSE i))
    /\ (exitVia = "all_failed" => Len(delays) = tries - 1)
    /\ Len(delays) <= tries - 1

C2_Witness == delays = <<2000, 8000>> /\ pc = "launch"

\* C3: when the process has ended, it has ended by the missing-payload exit,
\* the success exit or the all-attempts-failed exit.
C3_OneOfThreeExits ==
  pc = "exited" => exitVia \in {"missing_payload", "success", "all_failed"}

\* C4: exit code 0 if and only if an attempt succeeded, 2 if and only if all
\* N attempts ran and failed, 1 if and only if the payload did not load (and
\* then no attempt ran).
C4_ExitCodes ==
  pc = "exited" =>
    /\ (exitCode = 0 <=> res.ok)
    /\ (exitCode = 2 <=> (tries # NaN /\ attempts = tries /\ ~res.ok
                            /\ res.reason # "none"))
    /\ (exitCode = 1 <=> ~env.meta.loaded)
    /\ (~env.meta.loaded => attempts = 0 /\ browsers = 0)

\* C5: once the primary post has failed (postAnswerOnQuestion returned
\* false), the attempt is either about to try the space post or has tried it
\* and returned; when the space post failed too, what it returned is the
\* failure post_failed.
C5_FallbackBeforeFailure ==
  PrimaryFailed =>
    \/ pc = "space" /\ space = <<>>
    \/ /\ pc = "returned"
       /\ Len(space) = 1
       /\ (space[1] # "posted" => ~res.ok /\ res.reason = "post_failed")

C5_Witness ==
  pc = "returned" /\ primary = "no_editor" /\ space = <<"no_button">>
    /\ res.reason = "post_failed"

\* C6: the space post is tried at most once in an attempt, and only after
\* the primary post of that attempt has failed; a Success with mode question
\* has tried no space post, a Success with mode space follows a failed
\* primary post.
C6_FallbackOnlyAfterPrimaryFailure ==
  /\ Len(space) <= 1
  /\ (pc = "space" \/ space # <<>> => PrimaryFailed)
  /\ (pc = "returned" /\ res.ok /\ res.mode = "question" =>
        primary = "posted" /\ space = <<>>)
  /\ (pc = "returned" /\ res.ok /\ res.mode = "space" =>
        PrimaryFailed /\ space = <<"posted">>)

C6_Witness == pc = "returned" /\ res.ok /\ res.mode = "space"

\* the candidates the scoring pass has scored among the first n it visited,
\* in the order of their visits
RECURSIVE ScoredAmong(_)
ScoredAmong(n) ==
  IF n = 0 THEN <<>>
  ELSE IF visitLog[n] = "scored"
       THEN Append(ScoredAmong(n - 1), FullUrl(candidates[n].href))
       ELSE ScoredAmong(n - 1)

C8_ReturnedBestFirst ==
  pc = "choose" =>
    \A j, k \in 1..Len(scored) :
      (j < k /\ scored[j].score # NaN /\ scored[k].score # NaN) =>
        scored[j].score >= scored[k].score

\* C9: an attempt tries the token path at most once, then the credential
\* login at most once; the credential login is tried only with the token
\* absent or its path not kept, never after the token path was kept.
C9_AuthAtMostTwice ==
  /\ authLog \in {<<>>, <<"token">>, <<"creds">>, <<"token", "creds">>}
  /\ ("token" \in Range(authLog) => env.token)
  /\ ("creds" \in Range(authLog) => ~sessionOk)
  /\ (pc = "login" => ~sessionOk)
  /\ (sessionOk /\ PastAuth => authLog = <<"token">>)

C9_Witness == pc = "discover" /\ authLog = <<"token", "creds">>

\* C10: an attempt that is past authentication was accepted on a page with
\* no challenge phrase and no login input; a token page with either has the
\* token path dropped.
C10_AcceptedWithoutChallenge ==
  /\ (PastAuth =>
        /\ authPage.path = (IF sessionOk THEN "token" ELSE "creds")
        /\ authPage.html = {}
        /\ ~authPage.marker)
  /\ (authPage.path = "token" /\ (authPage.html # {} \/ authPage.marker) =>
        ~sessionOk)
  /\ (pc = "returned" /\ authPage.path = "creds"
        /\ (authPage.html # {} \/ authPage.marker) =>
        ~res.ok /\ res.reason = "auth_failed")

C10_Witness == pc = "discover" /\ authPage.path = "token" /\ sessionOk

\* C11: no fault of an attempt escapes it: the process never ends by a
\* rejection that nothing handled, and when it has ended after an attempt
\* was started, the loop has read what the last attempt returned (an ok
\* outcome, or a failure with its reason) and has taken the exit itself.
C11_NoFaultEscapes ==
  /\ exitVia # "unhandled_rejection"
  /\ (pc = "exited" /\ attempts >= 1 =>
        /\ exitVia \in {"success", "all_failed"}
        /\ (res.ok \/ res.reason # "none"))

\* a text holds a number when it holds a digit
HoldsNumber(t) == \E j \in 1..Len(t) : IsDigit(t[j])

\* C12: parseNumberFromText returns a non-negative integer for every text: a
\* bare integer gives its value, commas are ignored ("1,234" gives 1234), a k
\* or m suffix multiplies by 1,000 or 1,000,000 with a fractional mantissa
\* ("1.2k" gives 1200, "3m" gives 3000000), and a text that holds no number
\* (the empty text, "abc") gives 0.
C12_ParsesMagnitudes ==
  pc = "returned" =>
    /\ ret \in Nat
    /\ (arg = <<"5">> => ret = 5)
    /\ (arg = <<"1", "5", "1">> => ret = 151)
    /\ (arg = <<"1", ",", "2", "3", "4">> => ret = 1234)
    /\ (arg = <<"1", ".", "2", "k">> => ret = 1200)
    /\ (arg = <<"1", ".", "5">> => ret = 2)
    /\ (arg = <<"5", "k">> => ret = 5000)
    /\ (arg = <<"3", "m">> => ret = 3000000)
    /\ (arg = <<"5", "M">> => ret = 5000000)
    /\ (arg # Unset /\ ~HoldsNumber(arg) => ret = 0)

\* the stage of attemptPost that a position belongs to: 0 before the try,
\* 1 authenticate, 2 discover, 3 score, 4 primary post, 5 fallback post,
\* 6 done (the optional engagement and the return)
StageOf(p) ==
  IF p \in {"cookie", "tokenCheck", "login"} THEN 1
  ELSE IF p = "discover" THEN 2
  ELSE IF p \in {"score", "choose"} THEN 3
  ELSE IF p = "post" THEN 4
  ELSE IF p = "space" THEN 5
  ELSE IF p \in {"engage", "returned"} THEN 6
  ELSE 0

\* nothing of the attempt has run past authentication
NothingPastAuth ==
  /\ candidates = <<>>
  /\ visitLog = <<>>
  /\ pageLog = <<>>
  /\ scored = <<>>
  /\ chosen = NoCandidate
  /\ primary = "none"
  /\ primaryLog = NoPrimaryLog
  /\ space = <<>>

\* C13: the stages of an attempt run forward only (authenticate, discover,
\* score, primary post, fallback post, done).  A failed authentication
\* returns auth_failed straight from the login, with no search, no
\* candidate visit and no post; an empty discovery returns no_candidates
\* straight from the search, with no visit and no post; an empty scoring
\* result returns scoring_empty with no post; scoring starts only with
\* candidates, posting only with a chosen candidate.
C13_StagesForward ==
  /\ [][(StageOf(pc) >= 1 /\ StageOf(pc') >= 1) => StageOf(pc') >= StageOf(pc)]_vars
  /\ [][(pc = "login" /\ pc' = "returned") =>
          res'.reason = "auth_failed" /\ NothingPastAuth']_vars
  /\ [][(pc' = "returned" /\ res'.reason = "auth_failed") => pc = "login"]_vars
  /\ [][(pc = "discover" /\ pc' # "discover") =>
          IF pc' = "score" THEN candidates' # <<>>
          ELSE /\ pc' = "returned"
               /\ res'.reason \in {"no_candidates", "exception"}
               /\ (res'.reason = "no_candidates" => candidates' = <<>>)
               /\ visitLog' = <<>> /\ scored' = <<>> /\ primary' = "none"
               /\ space' = <<>>]_vars
  /\ [][(pc' = "returned" /\ res'.reason = "no_candidates") => pc = "discover"]_vars
  /\ [][(pc = "choose" /\ pc' # "choose") =>
          IF scored = <<>>
          THEN /\ pc' = "returned"
               /\ res'.reason = "scoring_empty"
               /\ primary' = "none" /\ space' = <<>>
          ELSE pc' = "post" /\ chosen' = scored[1]]_vars
  /\ [][(pc' = "returned" /\ res'.reason = "scoring_empty") =>
          pc = "choose" /\ scored = <<>>]_vars
  /\ [](pc \in {"score", "choose"} => candidates # <<>> /\ primary = "none")
  /\ [](StageOf(pc) \in 1..2 => NothingPastAuth)

\* the scoring pass has returned nothing and the attempt has returned
\* scoring_empty
C13_Witness ==
  pc = "returned" /\ res.reason = "scoring_empty" /\ primary = "none"

\* C14: an attempt whose credential login ended on a page with a challenge
\* phrase returns the reason challenge_detected, and one whose login ended
\* on a page with no challenge and the login input still there, or that had
\* no credentials to try, returns another reason.
C14_ChallengeReason ==
  (pc = "returned" /\ ~res.ok /\ NothingPastAuth) =>
    /\ (authPage.path = "creds" /\ detectChallenge(authPage.html) =>
          res.reason = "challenge_detected")
    /\ (authPage.path = "creds" /\ ~detectChallenge(authPage.html) /\ authPage.marker =>
          res.reason \notin {"challenge_detected", "exception", "none"})
    /\ (authLog = <<>> => res.reason \notin {"challenge_detected", "exception", "none"})

\* anchor p of the page is a question: its text, white space apart, ends
\* with a question mark
IsQuestionAt(p) ==
  LET t == arg[p].text
  IN  \E j \in 1..Len(t) :
        t[j] = "?" /\ \A k \in (j + 1)..Len(t) : t[k] = " "

\* anchor p is a question and no question before it has its href
IsFirstQuestionAt(p) ==
  /\ IsQuestionAt(p)
  /\ \A r \in 1..(p - 1) : ~(IsQuestionAt(r) /\ arg[r].href = arg[p].href)

\* where the first question with href h stands on the page; 0 if there is none
FirstQuestionWith(h) ==
  IF \E p \in 1..Len(arg) : IsFirstQuestionAt(p) /\ arg[p].href = h
  THEN CHOOSE p \in 1..Len(arg) : IsFirstQuestionAt(p) /\ arg[p].href = h
  ELSE 0

\* C15: the candidate list that discovery returns: every text ends with a
\* question mark, no two candidates share an href, there are at most
\* maxCandidates (10) of them, and they stand in the order in which their
\* hrefs first occur among the questions of the search page.
C15_CandidateList ==
  pc = "returned" =>
    /\ \A j \in 1..Len(ret) : ret[j].text # <<>> /\ ret[j].text[Len(ret[j].text)] = "?"
    /\ \A j, k \in 1..Len(ret) : j # k => ret[j].href # ret[k].href
    /\ Len(ret) <= 10
    /\ \A j \in 1..Len(ret) : FirstQuestionWith(ret[j].href) # 0
    /\ \A j, k \in 1..Len(ret) :
         j < k => FirstQuestionWith(ret[j].href) < FirstQuestionWith(ret[k].href)

\* a page of more than 40 anchors, some of them no questions, with more
\* than 10 hrefs among its questions and hrefs that repeat
C15_Witness ==
  /\ pc = "returned"
  /\ Len(ret) = 10
  /\ Len(arg) > 40
  /\ \E p \in 1..Len(arg) : ~IsQuestionAt(p)
  /\ \E p \in 1..Len(arg) : IsQuestionAt(p) /\ ~IsFirstQuestionAt(p)
  /\ \E p \in 1..Len(arg) :
       IsFirstQuestionAt(p) /\ \A j \in 1..Len(ret) : ret[j].href # arg[p].href

\* the extraction of a count has failed on a page: the first extraction
\* threw or its pattern found nothing, and the fallback element threw
FollowersMissing(page) == (~page.main \/ page.f = Unset) /\ page.ffall = Throws

AnswersMissing(page) == (~page.main \/ page.a = Unset) /\ page.afall = Throws

\* C16: a failure on one candidate's page does not end the scoring pass: the
\* pass goes on after an error until every candidate is visited (or a
\* challenge ends it), and every candidate whose page was read is in the
\* result, with each count whose extraction failed taken as zero.
C16_FailureKeepsScoring ==
  pc \in {"score", "choose"} =>
    /\ Len(visitLog) <= Len(candidates)
    /\ Len(pageLog) = Len(visitLog)
    /\ (pc = "choose" /\ "challenge" \notin Range(visitLog) =>
          Len(visitLog) = Len(candidates))
    /\ Len(scored) = Cardinality({n \in 1..Len(visitLog) : visitLog[n] = "scored"})
    /\ \A n \in 1..Len(visitLog) :
         visitLog[n] = "scored" =>
           \E j \in 1..Len(scored) :
             /\ scored[j].href = FullUrl(candidates[n].href)
             /\ (FollowersMissing(pageLog[n]) => scored[j].followers = 0)
             /\ (AnswersMissing(pageLog[n]) => scored[j].answers = 0)

\* the visit of the first candidate ended in an error, and the second
\* candidate, on whose page no count could be extracted, is in the result
\* with both counts zero
C16_Witness ==
  /\ pc = "choose"
  /\ Len(candidates) = 2
  /\ visitLog = <<"error", "scored">>
  /\ FollowersMissing(pageLog[2])
  /\ AnswersMissing(pageLog[2])
  /\ Len(scored) = 1
  /\ scored[1].followers = 0
  /\ scored[1].answers = 0

\* the driver calls of postAnswerOnQuestion that act on the question page
PrimaryInteractions ==
  {"lookup_editor", "lookup_answer", "click_answer", "type", "lookup_post", "click_post"}

\* C17: when the page of the primary target holds a challenge phrase, the
\* primary post ends after the navigation and the read of the html: no
\* editor lookup, no click on Answer/Write, no typing, no click on a post
\* button, and postAnswerOnQuestion has returned false, so no Success with
\* mode question comes of it.
C17_ChallengeAbortsPrimary ==
  detectChallenge(primaryLog.html) =>
    /\ primaryLog.calls = <<"goto", "content">>
    /\ Range(primaryLog.calls) \cap PrimaryInteractions = {}
    /\ primary = "challenge"
    /\ pc \in {"space", "returned"}
    /\ (pc = "returned" /\ res.ok => res.mode = "space")

C17_Witness ==
  /\ pc = "space"
  /\ primary = "challenge"
  /\ primaryLog = [html |-> {"are you human"}, calls |-> <<"goto", "content">>]

\* C18: every attempt closes its browser: never more than one browser is
\* open, none is open once attemptPost has ended (between attempts), and
\* none is open when the process has ended.
C18_BrowserReleased ==
  /\ browsers \in {0, 1}
  /\ (pc \in {"start", "launch", "returned", "backoff"} => browsers = 0)
  /\ (pc = "exited" => browsers = 0)

\* C19: whatever RETRY_MAX holds, the attempt cap is an integer of at least
\* 1, and a run whose payload has loaded does not end before an attempt has
\* been run.
C19_CapAtLeastOne ==
  (env.meta.loaded /\ pc # "start") =>
    /\ tries \in Nat
    /\ tries >= 1
    /\ (pc = "exited" => attempts >= 1)

\* the entries of a log file: those of its array, none when the file is
\* absent or holds no valid JSON
EntriesOf(file) == IF file.kind = "array" THEN file.entries ELSE <<>>

\* C20: in a run that has ended by the success exit, quora-log.json holds
\* the entries the run found and one more, with the mode and the target of
\* the attempt that succeeded; at every other point of a run, after failed
\* attempts and after the missing-payload and the all-attempts-failed exit,
\* the file is as the run found it.
C20_LogGainsOneEntry ==
  /\ (exitVia = "success" =>
        /\ res.ok
        /\ quoraLog.kind = "array"
        /\ quoraLog.entries =
             EntriesOf(env.log) \o <<[target |-> res.target, mode |-> res.mode]>>
        /\ res.mode \in {"question", "space"})
  /\ (exitVia # "success" => quoraLog = env.log)

\* a run that found one entry has ended in success at its second attempt
C20_Witness ==
  /\ exitVia = "success"
  /\ attempts = 2
  /\ env.log.kind = "array"
  /\ Len(quoraLog.entries) = 2
  /\ quoraLog.entries[2].mode = "space"

====
